---- MODULE Spec2Model ----
(***************************************************************************)
(* tinysh (src/tinysh.c): a tiny shell.  The model follows the control     *)
(* flow of main(): getCommand (backgroundInform, resolveBGPID, prompt,     *)
(* getline), parseCommand, the built-ins, fork / execChild / execParent,   *)
(* cleanup; the SIGTSTP handler catchSIGTSTP may run between any two       *)
(* steps of the main line of control.  Children are separate processes.    *)
(*                                                                         *)
(* Text is modelled as sequences of one-character strings; a C pointer to  *)
(* text is a record [k, v]: the null pointer, a pointer to a token inside  *)
(* the input buffer (v is the token), or a pointer to the global scratch   *)
(* buffer pidString.                                                       *)
(***************************************************************************)
EXTENDS Integers, Sequences, FiniteSets, TLC

(* ------------------------------ constants ------------------------------ *)

BGPID_ARR_SIZE == 20

\* the value of getpid() inside the shell
ShellPid == 407

\* wait-status numbers of the signals the model delivers
SIGINT == 2

SIGKILL == 9

SIGTERM == 15

\* lastStat, inputFile, outputFile, spawnpid start at -5 ("not used yet")
UNSET == -5

(* ------------------------------- bounds -------------------------------- *)

\* words per line in the parser's input set
MaxWords == 5

\* processes the shell can create before fork() fails for lack of resources
MaxChildren == 2

\* SIGTSTP deliveries not yet matched by a displayed mode message
MaxOwed == 2

\* words per line, for the lines with runs of spaces, in the parser's input set
MaxSpaced == 3

\* processes registered in the job-table specification
MaxJobs == 21

\* background jobs that end by themselves in the job-table specification
MaxDone == 1

\* words per line in the input set of the single-line specification
MaxLine == 3

(* -------------------------------- text --------------------------------- *)

NULL == [k |-> "null", v |-> <<>>]

Tok(t) == [k |-> "tok", v |-> t]

PidStrPtr == [k |-> "pidString", v |-> <<>>]

\* the text a pointer points to
Deref(p, pidStr) == IF p.k = "pidString" THEN pidStr ELSE p.v

W_amp == <<"&">>

W_lt == <<"<">>

W_gt == <<">">>

W_a == <<"a">>

W_f == <<"f">>

W_exp == <<"h", "$", "$", "t">>

\* a token that is nothing but the expansion marker
W_pid == <<"$", "$">>

\* a token with a tab character inside
W_tab == <<"a", "\t", "f">>

W_exit == <<"e", "x", "i", "t">>

W_status == <<"s", "t", "a", "t", "u", "s">>

W_cd == <<"c", "d">>

RECURSIVE JoinSp(_)
\* the words of ws separated by single spaces (an empty word gives a run of spaces)
JoinSp(ws) ==
  IF Len(ws) = 0 THEN <<>>
  ELSE IF Len(ws) = 1 THEN ws[1]
  ELSE ws[1] \o <<" ">> \o JoinSp(Tail(ws))

RECURSIVE TokScan(_, _, _, _)
TokScan(s, i, cur, acc) ==
  IF i > Len(s) THEN (IF cur = <<>> THEN acc ELSE Append(acc, cur))
  ELSE IF s[i] = " "
       THEN TokScan(s, i + 1, <<>>, IF cur = <<>> THEN acc ELSE Append(acc, cur))
       ELSE TokScan(s, i + 1, Append(cur, s[i]), acc)

RECURSIVE TokScanTab(_, _, _, _)
TokScanTab(s, i, cur, acc) ==
  IF i > Len(s) THEN (IF cur = <<>> THEN acc ELSE Append(acc, cur))
  ELSE IF s[i] \in {" ", "\t"}
       THEN TokScanTab(s, i + 1, <<>>, IF cur = <<>> THEN acc ELSE Append(acc, cur))
       ELSE TokScanTab(s, i + 1, Append(cur, s[i]), acc)

\* strtok with the delimiter set " \t"
strtokTab(s) == TokScanTab(s, 1, <<>>, <<>>)

\* the successive results of strtok(userInput, " "), strtok(NULL, " "), ...
\* up to the first null result: the maximal runs of non-space characters
strtok(s) == TokScan(s, 1, <<>>, <<>>)

\* strstr(token, "$$"): index of the first "$$" in token, 0 when there is none
strstr(token) ==
  LET hits == {p \in 1..(Len(token) - 1) : token[p] = "$" /\ token[p + 1] = "$"}
  IN IF hits = {} THEN 0 ELSE CHOOSE p \in hits : \A q \in hits : p <= q

Digit(d) == <<"0", "1", "2", "3", "4", "5", "6", "7", "8", "9">>[d + 1]

RECURSIVE Decimal(_)
\* "%ld" of a positive number
Decimal(n) == IF n < 10 THEN <<Digit(n)>> ELSE Decimal(n \div 10) \o <<Digit(n % 10)>>

(* ---------------------------- parseCommand ----------------------------- *)

\* the expansion with the text after the marker kept
ExpandKeepsRest(token) ==
  SubSeq(token, 1, strstr(token) - 1) \o Decimal(ShellPid)
    \o SubSeq(token, strstr(token) + 2, Len(token))

\* lines 178-179: the token is cut at its first "$$" and printed into pidString
\* with the process id after it
Expand(token) == SubSeq(token, 1, strstr(token) - 1) \o Decimal(ShellPid)

RECURSIVE ParseLoop(_, _, _)
\* The while (token) loop.  T: the tokens of the line, i: the index of the
\* current token, st: argCount, args (args[0] is st.args[1]), redir, pidString.
ParseLoop(T, i, st) ==
  IF i > Len(T) THEN st
  ELSE LET token == T[i]
           nxt   == IF i + 1 <= Len(T) THEN Tok(T[i + 1]) ELSE NULL
       IN IF strstr(token) # 0
          THEN ParseLoop(T, i + 1,
                 [st EXCEPT !.pidString = Expand(token),
                            !.args = Append(st.args, PidStrPtr),
                            !.argCount = st.argCount + 1])
          ELSE IF token = W_lt
          THEN ParseLoop(T, i + 2, [st EXCEPT !.redir[1] = nxt])
          ELSE IF token = W_gt
          THEN ParseLoop(T, i + 2, [st EXCEPT !.redir[2] = nxt])
          ELSE ParseLoop(T, i + 1,
                 [st EXCEPT !.args = Append(st.args, Tok(token)),
                            !.argCount = st.argCount + 1])

\* the scan with the two slots of redir exchanged
ParseScanSwapped(line, redir0, pidStr0) ==
  LET st == ParseLoop(strtok(line), 1,
              [argCount |-> 0, args |-> <<>>, redir |-> redir0, pidString |-> pidStr0])
  IN [st EXCEPT !.args = Append(st.args, NULL), !.redir = <<st.redir[2], st.redir[1]>>]

\* lines 168-198: the scan and the terminating null
ParseScan(line, redir0, pidStr0) ==
  LET st == ParseLoop(strtok(line), 1,
              [argCount |-> 0, args |-> <<>>, redir |-> redir0, pidString |-> pidStr0])
  IN [st EXCEPT !.args = Append(st.args, NULL)]

\* lines 200-205 without the test of disallow_background
ParseAmpAlways(st, disallow, bg0) ==
  LET last == st.args[st.argCount]
      isAmp == last # NULL /\ Deref(last, st.pidString) = W_amp
  IN [argCount   |-> st.argCount,
      args       |-> IF isAmp THEN [st.args EXCEPT ![st.argCount] = NULL] ELSE st.args,
      redir      |-> st.redir,
      pidString  |-> st.pidString,
      background |-> IF isAmp THEN TRUE ELSE bg0]

\* lines 200-205, for argCount >= 1: the test of the last argument against "&"
ParseAmp(st, disallow, bg0) ==
  LET last == st.args[st.argCount]
      isAmp == last # NULL /\ Deref(last, st.pidString) = W_amp
  IN [argCount   |-> st.argCount,
      args       |-> IF isAmp THEN [st.args EXCEPT ![st.argCount] = NULL] ELSE st.args,
      redir      |-> st.redir,
      pidString  |-> st.pidString,
      background |-> IF isAmp /\ ~disallow THEN TRUE ELSE bg0]

\* the argument list a program sees: args up to the first null pointer
RECURSIVE ArgList(_, _)
ArgList(args, pidStr) ==
  IF args = <<>> \/ args[1] = NULL THEN <<>>
  ELSE <<Deref(args[1], pidStr)>> \o ArgList(Tail(args), pidStr)

(* ----------------------------- wait status ------------------------------ *)

\* how a process ended: it called exit(n), or a signal n killed it
Exited(n) == [kind |-> "exit", n |-> n]

Signaled(n) == [kind |-> "signal", n |-> n]

NoCause == [kind |-> "none", n |-> 0]

\* the int that waitpid() stores for a process that ended by cause c
WaitStatus(c) == IF c.kind = "exit" THEN (c.n % 256) * 256 ELSE c.n

WIFEXITED(s) == (s % 128) = 0

WEXITSTATUS(s) == (s \div 256) % 256

WTERMSIG(s) == s % 128

WIFSIGNALED(s) == (s % 128) # 0 /\ (s % 128) # 127

(* ------------------------------- state --------------------------------- *)

VARIABLES
  pc,                   \* position of the shell's main line of control
  background,           \* global flags (lines 31-33)
  disallow_background,
  background_inform,
  pidString,            \* global scratch buffer for the $$ expansion (line 30)
  userInput,            \* the line getCommand hands to parseCommand
  args,                 \* args[0..argCount] of main; args[i] is args[i + 1] here
  redir,                \* redir[0], redir[1] of main
  argCount,
  lastStat,
  spawnpid,
  backgroundPIDs,       \* the job table: slot -> pid, 0 for an empty slot
  ri,                   \* the loop index i of resolveBGPID
  sigint,               \* the shell's disposition of SIGINT
  cwd,                  \* the shell's working directory
  exitCode,             \* -1 while the shell runs
  children,             \* children[pid]: the processes fork() created
  lastOut,              \* the text printed by the latest step of the main line of
                        \* control (NoOut when that step printed nothing)
  hist                  \* history of the run, read by the properties only

vars == <<pc, background, disallow_background, background_inform, pidString,
          userInput, args, redir, argCount, lastStat, spawnpid, backgroundPIDs,
          ri, sigint, cwd, exitCode, children, lastOut, hist>>

Slots == 0..(BGPID_ARR_SIZE - 1)

Pids == 1..Len(children)

Out(m, a, b) == [m |-> m, a |-> a, b |-> b]

NoOut == Out("", 0, 0)

ModeMsgs == {"Entering foreground-only mode (& is now ignored)", "Exiting foreground-only mode"}

\* scrubPIDArray: every slot empty
scrubPIDArray == [i \in Slots |-> 0]

InitHist ==
  [owed       |-> 0,        \* runs of catchSIGTSTP minus mode messages displayed
                            \* (counted where watch is set)
   sigSince   |-> FALSE,    \* catchSIGTSTP ran since the last end of backgroundInform
   fresh      |-> FALSE,    \* catchSIGTSTP ran since the last mode message or clearing
   watch      |-> FALSE,    \* are owed and shown recorded (they are in the
                            \* specification of the mode, SpecMode)
   shown      |-> "",       \* the mode message displayed last: "enter", "exit", "" for none
   cycle      |-> <<>>,     \* steps of getCommand done in the current prompt cycle
   doneAtScan |-> {},       \* jobs already ended when the current scan started
   lastFg     |-> NoCause,  \* how the most recently waited foreground child ended
   held       |-> {},       \* pids in the job table when exit was dispatched
   line       |-> <<>>,     \* the line being processed
   disAtParse |-> FALSE,    \* disallow_background as parseCommand read it
   lastPlace  |-> [pid |-> 0, before |-> scrubPIDArray]]  \* the last call of placePID

\* the value of getenv("HOME"); the shell is started in that directory
HOME == <<"~">>

\* memory of main() before its first statement
Init ==
  /\ pc = "start"
  /\ background = FALSE
  /\ disallow_background = FALSE
  /\ background_inform = FALSE
  /\ pidString = <<>>
  /\ userInput = <<>>
  /\ args = <<NULL>>
  /\ redir = <<NULL, NULL>>
  /\ argCount = 0
  /\ lastStat = UNSET
  /\ spawnpid = UNSET
  /\ backgroundPIDs = scrubPIDArray
  /\ ri = 0
  /\ sigint = "DFL"
  /\ cwd = HOME
  /\ exitCode = -1
  /\ children = <<>>
  /\ lastOut = NoOut
  /\ hist = InitHist

ShellAlive == pc \notin {"start", "done", "crashed"}

\* The shell process has ended (exit, return from main, or a fatal signal): the
\* memory that held the current command is gone with it.
Gone ==
  /\ background' = FALSE
  /\ pidString' = <<>>
  /\ userInput' = <<>>
  /\ args' = <<NULL>>
  /\ redir' = <<NULL, NULL>>
  /\ argCount' = 0
  /\ spawnpid' = UNSET

(* ------------------------- startup (lines 393-397) --------------------- *)

\* prepSigHandler: install catchSIGTSTP, ignore SIGINT
prepSigHandler == "IGN"

Startup ==
  /\ pc = "start"
  /\ sigint' = prepSigHandler
  /\ backgroundPIDs' = scrubPIDArray
  /\ redir' = <<NULL, NULL>>
  /\ pc' = "bi61a"
  /\ lastOut' = NoOut
  /\ UNCHANGED <<background, disallow_background, background_inform, pidString,
                 userInput, args, argCount, lastStat, spawnpid, ri, cwd, exitCode,
                 children, hist>>

(* ------------------------ SIGTSTP (lines 46-54) ------------------------ *)

\* the handler's effect on <<disallow_background, background_inform>>
SigTstpEffect(dis, inf) == <<~dis, TRUE>>

\* The handler runs with every signal blocked (sigfillset), so it is one step;
\* it can interrupt the main line of control between any two of its steps.
catchSIGTSTP ==
  /\ ShellAlive
  /\ hist.owed < MaxOwed
  /\ disallow_background' = SigTstpEffect(disallow_background, background_inform)[1]
  /\ background_inform' = SigTstpEffect(disallow_background, background_inform)[2]
  /\ hist' = [hist EXCEPT !.owed = IF hist.watch THEN @ + 1 ELSE @,
                          !.sigSince = TRUE, !.fresh = TRUE]
  /\ UNCHANGED <<pc, background, pidString, userInput, args, redir, argCount,
                 lastStat, spawnpid, backgroundPIDs, ri, sigint, cwd, exitCode,
                 children, lastOut>>

(* -------------------- backgroundInform (lines 60-69) ------------------- *)

Main0 == <<background, pidString, userInput, args, redir, argCount, lastStat,
           spawnpid, backgroundPIDs, sigint, cwd, exitCode, children>>

\* line 61, left operand: the read of background_inform
BI61a ==
  /\ pc = "bi61a"
  /\ pc' = IF background_inform THEN "bi61b" ELSE "bi64a"
  /\ lastOut' = NoOut
  /\ UNCHANGED <<Main0, ri, disallow_background, background_inform, hist>>

\* line 61, right operand, and line 62
BI61b ==
  /\ pc = "bi61b"
  /\ IF disallow_background
     THEN /\ lastOut' = Out("Entering foreground-only mode (& is now ignored)", 0, 0)
          /\ hist' = [hist EXCEPT !.owed = IF hist.watch THEN @ - 1 ELSE @,
                                  !.fresh = FALSE,
                                  !.shown = IF hist.watch THEN "enter" ELSE @]
          /\ pc' = "bi68"
     ELSE /\ pc' = "bi64a"
          /\ lastOut' = NoOut
          /\ UNCHANGED hist
  /\ UNCHANGED <<Main0, ri, disallow_background, background_inform>>

\* line 64, left operand
BI64a ==
  /\ pc = "bi64a"
  /\ pc' = IF background_inform THEN "bi64b" ELSE "bi68"
  /\ lastOut' = NoOut
  /\ UNCHANGED <<Main0, ri, disallow_background, background_inform, hist>>

\* line 64, right operand, and line 65
BI64b ==
  /\ pc = "bi64b"
  /\ IF ~disallow_background
     THEN /\ lastOut' = Out("Exiting foreground-only mode", 0, 0)
          /\ hist' = [hist EXCEPT !.owed = IF hist.watch THEN @ - 1 ELSE @,
                                  !.fresh = FALSE,
                                  !.shown = IF hist.watch THEN "exit" ELSE @]
     ELSE /\ lastOut' = NoOut
          /\ UNCHANGED hist
  /\ pc' = "bi68"
  /\ UNCHANGED <<Main0, ri, disallow_background, background_inform>>

\* getCommand with the prompt moved ahead of resolveBGPID
getCommandPromptFirst(step) ==
  CASE step = "inform"  -> "prompt"
    [] step = "resolve" -> "read"
    [] step = "prompt"  -> "read"

\* where getCommand goes after each of its steps (lines 101-106)
getCommandNext(step) ==
  CASE step = "inform"  -> "resolve"
    [] step = "resolve" -> "prompt"
    [] step = "prompt"  -> "read"

\* backgroundInform without its last statement
BI68Forgotten ==
  /\ pc = "bi68"
  /\ pc' = getCommandNext("inform")
  /\ ri' = 0
  /\ hist' = [hist EXCEPT !.sigSince = FALSE, !.cycle = Append(@, "inform")]
  /\ lastOut' = NoOut
  /\ UNCHANGED <<Main0, disallow_background, background_inform>>

\* line 68: the pending flag is cleared whatever was displayed; control returns
\* to getCommand, which starts the scan of resolveBGPID
BI68 ==
  /\ pc = "bi68"
  /\ background_inform' = FALSE
  /\ pc' = getCommandNext("inform")
  /\ ri' = 0
  /\ hist' = [hist EXCEPT !.sigSince = FALSE,
                          !.fresh = FALSE,
                          !.cycle = Append(@, "inform"),
                          !.doneAtScan = {p \in Pids : children[p].st = "zombie" /\
                                            \E i \in Slots : backgroundPIDs[i] = p}]
  /\ lastOut' = NoOut
  /\ UNCHANGED <<Main0, disallow_background>>

(* --------------------- resolveBGPID (lines 75-92) ---------------------- *)

\* a process that was waited for: nothing of it is left but the pid
Reaped(c) ==
  [c EXCEPT !.st = "reaped", !.cause = NoCause, !.execd = FALSE, !.failed = FALSE]

\* waitpid that reports every child as ended
waitpidAlways(kids, pid) == pid

\* waitpid(pid, &stat, WNOHANG): 0 while the child has not ended, else non-zero
waitpidNoHang(kids, pid) ==
  IF pid \in 1..Len(kids) /\ kids[pid].st \in {"forked", "running"} THEN 0
  ELSE IF pid \in 1..Len(kids) /\ kids[pid].st = "zombie" THEN pid
  ELSE -1

\* the text of lines 81-86 for wait status stat (statusShell, lines 238-243, prints the same)
Disposition(stat) ==
  IF WIFEXITED(stat) THEN [m |-> "exit value", n |-> WEXITSTATUS(stat)]
  ELSE [m |-> "terminated by signal", n |-> WTERMSIG(stat)]

\* lines 78-90 without line 88: the job is reported and its slot stays occupied
ResolveSlotKeeps(pids, kids, i) ==
  IF pids[i] # 0 /\ waitpidNoHang(kids, pids[i]) # 0
  THEN LET p    == pids[i]
           stat == IF p \in 1..Len(kids) THEN WaitStatus(kids[p].cause) ELSE 0
       IN [pids |-> pids,
           kids |-> IF p \in 1..Len(kids) /\ kids[p].st = "zombie"
                    THEN [kids EXCEPT ![p] = [Reaped(@) EXCEPT !.reported = @ + 1]]
                    ELSE kids,
           out  |-> Out(IF Disposition(stat).m = "exit value"
                        THEN "background pid is done: exit value"
                        ELSE "background pid is done: terminated by signal",
                        p, Disposition(stat).n)]
  ELSE [pids |-> pids, kids |-> kids, out |-> NoOut]

\* lines 78-90 for slot i: the table, the children and the text printed ("" for none)
ResolveSlot(pids, kids, i) ==
  IF pids[i] # 0 /\ waitpidNoHang(kids, pids[i]) # 0
  THEN LET p    == pids[i]
           stat == IF p \in 1..Len(kids) THEN WaitStatus(kids[p].cause) ELSE 0
       IN [pids |-> [pids EXCEPT ![i] = 0],
           kids |-> IF p \in 1..Len(kids) /\ kids[p].st = "zombie"
                    THEN [kids EXCEPT ![p] = [Reaped(@) EXCEPT !.reported = @ + 1]]
                    ELSE kids,
           out  |-> Out(IF Disposition(stat).m = "exit value"
                        THEN "background pid is done: exit value"
                        ELSE "background pid is done: terminated by signal",
                        p, Disposition(stat).n)]
  ELSE [pids |-> pids, kids |-> kids, out |-> NoOut]

Main1 == <<background, pidString, userInput, args, redir, argCount, lastStat,
           spawnpid, sigint, cwd, exitCode>>

\* One step of the scan: the iterations over empty slots up to the next occupied
\* slot (they touch nothing but i) and the iteration for that slot.
ResolveStep ==
  /\ pc = "resolve"
  /\ LET occ == {j \in Slots : j >= ri /\ backgroundPIDs[j] # 0}
     IN IF occ = {}
        THEN /\ pc' = getCommandNext("resolve")
             /\ ri' = BGPID_ARR_SIZE
             /\ hist' = [hist EXCEPT !.cycle = Append(@, "reconcile")]
             /\ lastOut' = NoOut
             /\ UNCHANGED <<backgroundPIDs, children>>
        ELSE LET j == CHOOSE j \in occ : \A k \in occ : j <= k
                 r == ResolveSlot(backgroundPIDs, children, j)
             IN /\ backgroundPIDs' = r.pids
                /\ children' = r.kids
                /\ lastOut' = r.out
                /\ ri' = j + 1
                /\ UNCHANGED <<pc, hist>>
  /\ UNCHANGED <<Main1, disallow_background, background_inform>>

(* ---------------------- getCommand (lines 97-115) ---------------------- *)

Prompt ==
  /\ pc = "prompt"
  /\ lastOut' = Out(": ", 0, 0)
  /\ pc' = getCommandNext("prompt")
  /\ hist' = [hist EXCEPT !.cycle = Append(@, "prompt")]
  /\ UNCHANGED <<Main0, ri, disallow_background, background_inform>>

\* line 110 for a line of text (without its newline): is it handed to the parser
Accepted(line) == (Len(line) = 0 \/ line[1] # "#") /\ Len(line) + 1 > 1

\* the lines typed at the shell
ShellLines ==
  { JoinSp(<<W_a>>), JoinSp(<<W_a, W_amp>>), JoinSp(<<W_a, W_lt, W_f, W_gt, W_f>>),
    JoinSp(<<W_a, W_lt>>), JoinSp(<<W_exit>>), JoinSp(<<W_status>>), JoinSp(<<W_cd>>),
    <<"#", "a">>, <<>>, <<" ">> }

\* getline fails (-1) and the loop starts over after clearerr
ReadFail ==
  /\ pc = "read"
  /\ pc' = "bi61a"
  /\ hist' = [hist EXCEPT !.cycle = <<>>, !.doneAtScan = {}]
  /\ lastOut' = NoOut
  /\ UNCHANGED <<Main0, ri, disallow_background, background_inform>>

\* getline returns a line: lines 110-114
ReadLine(line) ==
  /\ pc = "read"
  /\ IF Accepted(line)
     THEN /\ userInput' = line
          /\ pc' = "parse"
          /\ hist' = [hist EXCEPT !.doneAtScan = {}]
     ELSE /\ pc' = "bi61a"
          /\ hist' = [hist EXCEPT !.cycle = <<>>, !.doneAtScan = {}]
          /\ UNCHANGED userInput
  /\ lastOut' = NoOut
  /\ UNCHANGED <<background, pidString, args, redir, argCount, lastStat, spawnpid,
                 backgroundPIDs, sigint, cwd, exitCode, children, ri,
                 disallow_background, background_inform>>

(* -------------------- parseCommand (lines 167-208) --------------------- *)

\* parseCommand for a line that leaves at least one argument
parseCommand(line, redir0, pidStr0, disallow, bg0) ==
  ParseAmp(ParseScan(line, redir0, pidStr0), disallow, bg0)

Main2 == <<lastStat, spawnpid, backgroundPIDs, ri, sigint, cwd, exitCode, children,
           disallow_background, background_inform, userInput>>

Flags == <<ri, sigint, disallow_background, background_inform>>

Parse ==
  /\ pc = "parse"
  /\ ParseScan(userInput, redir, pidString).argCount >= 1
  /\ LET r == parseCommand(userInput, redir, pidString, disallow_background, background)
     IN /\ args' = r.args
        /\ redir' = r.redir
        /\ argCount' = r.argCount
        /\ pidString' = r.pidString
        /\ background' = r.background
  /\ hist' = [hist EXCEPT !.disAtParse = disallow_background]
  /\ lastOut' = NoOut
  /\ pc' = "dispatch"
  /\ UNCHANGED Main2

\* argCount = 0: line 200 reads args[-1], which is not an element of args.
\* The read is undefined: the process is killed, or the comparison comes out
\* either way (and with it the test of disallow_background).
ParseNoArgs ==
  /\ pc = "parse"
  /\ ParseScan(userInput, redir, pidString).argCount = 0
  /\ \/ /\ pc' = "crashed"
        /\ Gone
     \/ /\ LET st == ParseScan(userInput, redir, pidString)
           IN /\ args' = st.args
              /\ redir' = st.redir
              /\ argCount' = 0
              /\ pidString' = st.pidString
        /\ pc' = "dispatch"
        /\ background' \in {background, background \/ ~disallow_background}
        /\ UNCHANGED <<spawnpid, userInput>>
  /\ hist' = [hist EXCEPT !.disAtParse = disallow_background]
  /\ lastOut' = NoOut
  /\ UNCHANGED <<lastStat, backgroundPIDs, ri, sigint, cwd, exitCode, children,
                 disallow_background, background_inform>>

(* --------------------- job table (lines 121-160) ----------------------- *)

\* placePID with a loop that stops one slot early
placePIDShort(bgPIDs, addPID) ==
  LET free == {i \in Slots : bgPIDs[i] = 0 /\ i < BGPID_ARR_SIZE - 1}
  IN IF free = {}
     THEN [placed |-> FALSE, pids |-> bgPIDs]
     ELSE [placed |-> TRUE,
           pids   |-> [bgPIDs EXCEPT ![CHOOSE i \in free : \A j \in free : i <= j] = addPID]]

\* placePID: the first empty slot takes addPID; placed is false when there is none
placePID(bgPIDs, addPID) ==
  LET free == {i \in Slots : bgPIDs[i] = 0}
  IN IF free = {}
     THEN [placed |-> FALSE, pids |-> bgPIDs]
     ELSE [placed |-> TRUE,
           pids   |-> [bgPIDs EXCEPT ![CHOOSE i \in free : \A j \in free : i <= j] = addPID]]

\* a process that ended by cause e: its descriptors and dispositions are gone
Ended(c, e) ==
  [c EXCEPT !.st = "zombie", !.cause = e, !.stdin = "inherit", !.stdout = "inherit",
            !.sigint = "DFL", !.rin = FALSE, !.rout = FALSE]

\* kill(pid, SIGKILL): the signal is sent; a process that still runs dies of it
Kill(c) ==
  IF c.st \in {"forked", "running"}
  THEN [Ended(c, Signaled(SIGKILL)) EXCEPT !.killed = TRUE]
  ELSE [c EXCEPT !.killed = TRUE]

\* killChildren: SIGKILL to the pid of every occupied slot, and the slot emptied
killChildren(pids, kids) ==
  [pids |-> [i \in Slots |-> 0],
   kids |-> [p \in 1..Len(kids) |->
               IF \E i \in Slots : pids[i] = p THEN Kill(kids[p]) ELSE kids[p]]]

(* ---------------------- built-ins (lines 226-267) ---------------------- *)

\* exitShell without the call of killChildren
exitShellNoKill(pids, kids) == [pids |-> pids, kids |-> kids]

\* exitShell: kill the background children, free the line, reset the flag
exitShell(pids, kids) == killChildren(pids, kids)

\* statusShell printing the raw wait status as the exit value
statusShellRaw(stat) ==
  IF WIFEXITED(stat) THEN Out("exit value", stat, 0)
  ELSE Out("terminated by signal", WTERMSIG(stat), 0)

\* statusShell: the text printed for lastStat
statusShell(stat) == Out(Disposition(stat).m, Disposition(stat).n, 0)

\* cdShell: the pointer copied into path (line 259-264)
cdShell(as, n, pidStr) == IF n = 1 THEN Tok(HOME) ELSE as[2]

\* the command name main() compares at lines 402-409
Name == Deref(args[1], pidString)

Main3 == <<pidString, userInput, args, redir, argCount, spawnpid, ri, sigint,
           disallow_background, background_inform>>

\* args[0] is null: strcmp at line 402 reads through a null pointer
DispatchNull ==
  /\ pc = "dispatch"
  /\ args[1] = NULL
  /\ pc' = "crashed"
  /\ Gone
  /\ lastOut' = NoOut
  /\ UNCHANGED <<Flags, lastStat, backgroundPIDs, cwd, exitCode, children, hist>>

\* lines 402-405 and 430: exit
DoExit ==
  /\ pc = "dispatch"
  /\ args[1] # NULL /\ Name = W_exit
  /\ LET r == exitShell(backgroundPIDs, children)
     IN /\ backgroundPIDs' = r.pids
        /\ children' = r.kids
  /\ Gone
  /\ hist' = [hist EXCEPT !.held = {backgroundPIDs[i] : i \in Slots} \ {0}]
  /\ pc' = "done"
  /\ exitCode' = 0
  /\ lastOut' = NoOut
  /\ UNCHANGED <<Flags, lastStat, cwd>>

\* lines 406-408: status
DoStatus ==
  /\ pc = "dispatch"
  /\ args[1] # NULL /\ Name = W_status
  /\ lastOut' = statusShell(lastStat)
  /\ background' = FALSE
  /\ pc' = "cleanup"
  /\ UNCHANGED <<Main3, lastStat, backgroundPIDs, cwd, exitCode, children, hist>>

\* lines 409-411: cd; chdir may fail and then leaves the directory as it was
DoCd ==
  /\ pc = "dispatch"
  /\ args[1] # NULL /\ Name = W_cd
  /\ LET path == cdShell(args, argCount, pidString)
     IN IF path = NULL
        THEN /\ pc' = "crashed"     \* strcpy(path, NULL)
             /\ Gone
             /\ UNCHANGED cwd
        ELSE /\ cwd' \in {Deref(path, pidString), cwd}
             /\ background' = FALSE
             /\ pc' = "cleanup"
             /\ UNCHANGED <<pidString, userInput, args, redir, argCount, spawnpid>>
  /\ lastOut' = NoOut
  /\ UNCHANGED <<Flags, lastStat, backgroundPIDs, exitCode, children, hist>>

\* line 412: anything else is run in a new process
DoExternal ==
  /\ pc = "dispatch"
  /\ args[1] # NULL /\ Name \notin {W_exit, W_status, W_cd}
  /\ pc' = "fork"
  /\ lastOut' = NoOut
  /\ UNCHANGED <<Main3, background, lastStat, backgroundPIDs, cwd, exitCode, children,
                 hist>>

(* ------------------------ fork (lines 413-425) ------------------------- *)

\* a child that decides by the mode flag as it is at fork time
NewChildByMode ==
  [st |-> "forked", bg |-> background /\ ~disallow_background, rin |-> redir[1] # NULL,
   rout |-> redir[2] # NULL, sigint |-> sigint, stdin |-> "inherit", stdout |-> "inherit",
   cause |-> NoCause, execd |-> FALSE, failed |-> FALSE, killed |-> FALSE, reported |-> 0]

\* the child right after fork(): a copy of the shell's memory and dispositions
NewChild ==
  [st |-> "forked", bg |-> background, rin |-> redir[1] # NULL, rout |-> redir[2] # NULL,
   sigint |-> sigint, stdin |-> "inherit", stdout |-> "inherit", cause |-> NoCause,
   execd |-> FALSE, failed |-> FALSE, killed |-> FALSE, reported |-> 0]

Fork ==
  /\ pc = "fork"
  /\ Len(children) < MaxChildren
  /\ children' = Append(children, NewChild)
  /\ spawnpid' = Len(children) + 1
  /\ pc' = "parent"
  /\ lastOut' = NoOut
  /\ UNCHANGED <<background, pidString, userInput, args, redir, argCount, lastStat,
                 backgroundPIDs, ri, sigint, cwd, exitCode, hist,
                 disallow_background, background_inform>>

\* fork() returns -1: perror and exit(1), lines 415-417
ForkFail ==
  /\ pc = "fork"
  /\ Gone
  /\ lastOut' = Out("Fork() problem!", 0, 0)
  /\ pc' = "done"
  /\ exitCode' = 1
  /\ UNCHANGED <<Flags, lastStat, backgroundPIDs, cwd, children, hist>>

(* --------------------- execChild (lines 274-313) ----------------------- *)

\* perror and exit(1) in the child (lines 278-279, 291-292, 310-311)
ChildExit1(c) == [Ended(c, Exited(1)) EXCEPT !.failed = TRUE]

\* execChild without lines 306-308
execChildKeepsIgnore(c, inOk, outOk, execOk) ==
  LET c1 == [c EXCEPT !.stdin = IF c.rin THEN "file" ELSE IF c.bg THEN "null" ELSE @]
      c2 == [c1 EXCEPT !.stdout = IF c.rout THEN "file" ELSE IF c.bg THEN "null" ELSE @]
  IN IF c.rin /\ ~inOk THEN ChildExit1(c)
     ELSE IF c.rout /\ ~outOk THEN ChildExit1(c1)
     ELSE IF ~execOk THEN ChildExit1(c2)
     ELSE [c2 EXCEPT !.st = "running", !.execd = TRUE, !.rin = FALSE, !.rout = FALSE]

\* execChild without the exit(1) of line 311: after a failed execvp the child
\* returns to main() and goes on in the loop
execChildReturns(c, inOk, outOk, execOk) ==
  LET c1 == [c EXCEPT !.stdin = IF c.rin THEN "file" ELSE IF c.bg THEN "null" ELSE @]
      c2 == [c1 EXCEPT !.stdout = IF c.rout THEN "file" ELSE IF c.bg THEN "null" ELSE @]
      c3 == [c2 EXCEPT !.sigint = IF ~c.bg THEN "DFL" ELSE @]
  IN IF c.rin /\ ~inOk THEN ChildExit1(c)
     ELSE IF c.rout /\ ~outOk THEN ChildExit1(c1)
     ELSE IF ~execOk THEN [c3 EXCEPT !.st = "returned", !.failed = TRUE]
     ELSE [c3 EXCEPT !.st = "running", !.execd = TRUE, !.rin = FALSE, !.rout = FALSE]

\* execChild in child c; inOk, outOk, execOk: do the two open() calls and
\* execvp() succeed.  The result is the child as a running program or as ended.
execChild(c, inOk, outOk, execOk) ==
  LET c1 == [c EXCEPT !.stdin = IF c.rin THEN "file" ELSE IF c.bg THEN "null" ELSE @]
      c2 == [c1 EXCEPT !.stdout = IF c.rout THEN "file" ELSE IF c.bg THEN "null" ELSE @]
      c3 == [c2 EXCEPT !.sigint = IF ~c.bg THEN "DFL" ELSE @]
  IN IF c.rin /\ ~inOk THEN ChildExit1(c)
     ELSE IF c.rout /\ ~outOk THEN ChildExit1(c1)
     ELSE IF ~execOk THEN ChildExit1(c3)
     ELSE [c3 EXCEPT !.st = "running", !.execd = TRUE, !.rin = FALSE, !.rout = FALSE]

ShellState == <<pc, background, disallow_background, background_inform, pidString,
                userInput, args, redir, argCount, lastStat, spawnpid, backgroundPIDs,
                ri, sigint, cwd, exitCode, lastOut, hist>>

\* case 0 of the switch, in the child process
ChildSetup(p) ==
  /\ children[p].st = "forked"
  /\ \E inOk, outOk, execOk \in BOOLEAN :
       children' = [children EXCEPT ![p] = execChild(@, inOk, outOk, execOk)]
  /\ UNCHANGED ShellState

\* the ways a running program ends: it exits, or a signal it does not ignore kills it
Endings(c) ==
  {Exited(0)} \cup (IF c.sigint = "DFL" THEN {Signaled(SIGINT)} ELSE {Signaled(SIGTERM)})

ChildEnds(p) ==
  /\ children[p].st = "running"
  /\ \E e \in Endings(children[p]) :
       children' = [children EXCEPT ![p] = Ended(@, e)]
  /\ UNCHANGED ShellState

(* --------------------- execParent (lines 322-335) ---------------------- *)

Main4 == <<pidString, userInput, args, redir, argCount, spawnpid, ri, sigint, cwd,
           background, disallow_background, background_inform>>

\* lines 323-329: waitpid(spawnpid, lastStat, 0) returns when the child has ended
ExecParentFg ==
  /\ pc = "parent"
  /\ ~background
  /\ children[spawnpid].st = "zombie"
  /\ lastStat' = WaitStatus(children[spawnpid].cause)
  /\ children' = [children EXCEPT ![spawnpid] = Reaped(@)]
  /\ lastOut' = IF WIFSIGNALED(lastStat')
                THEN Out("terminated by signal", WTERMSIG(lastStat'), 0)
                ELSE NoOut
  /\ hist' = [hist EXCEPT !.lastFg = children[spawnpid].cause]
  /\ pc' = "cleanup"
  /\ UNCHANGED <<Main4, backgroundPIDs, exitCode>>

\* lines 330-334: placePID and the message; lines 130-133 when the table is full
ExecParentBg ==
  /\ pc = "parent"
  /\ background
  /\ LET r == placePID(backgroundPIDs, spawnpid)
     IN /\ backgroundPIDs' = r.pids
        /\ hist' = [hist EXCEPT !.lastPlace = [pid |-> spawnpid, before |-> backgroundPIDs]]
        /\ IF r.placed
           THEN /\ lastOut' = Out("background pid is", spawnpid, 0)
                /\ pc' = "cleanup"
                /\ UNCHANGED <<exitCode, pidString, userInput, args, redir, argCount,
                               spawnpid, background>>
           ELSE /\ lastOut' = Out("Couldn't track background process.", 0, 0)
                /\ pc' = "done"
                /\ exitCode' = 1
                /\ Gone
  /\ UNCHANGED <<Flags, cwd, lastStat, children>>

(* ---------------- cleanup, scrubIO (lines 342-369, 397) ---------------- *)

\* cleanup at the end of an iteration and scrubIO at the start of the next.
\* argCount and spawnpid are dead here (assigned before their next read).
Cleanup ==
  /\ pc = "cleanup"
  /\ background' = FALSE
  /\ userInput' = <<>>
  /\ args' = <<NULL>>
  /\ pidString' = <<>>
  /\ redir' = <<NULL, NULL>>
  /\ argCount' = 0
  /\ spawnpid' = UNSET
  /\ hist' = [hist EXCEPT !.cycle = <<>>, !.disAtParse = FALSE,
                          !.lastPlace = InitHist.lastPlace]
  /\ pc' = "bi61a"
  /\ lastOut' = NoOut
  /\ UNCHANGED <<lastStat, backgroundPIDs, ri, sigint, cwd, exitCode, children,
                 disallow_background, background_inform>>

(* --------------------------- specification ----------------------------- *)

Next ==
  \/ Startup
  \/ catchSIGTSTP
  \/ BI61a \/ BI61b \/ BI64a \/ BI64b \/ BI68
  \/ ResolveStep
  \/ Prompt
  \/ ReadFail
  \/ \E line \in ShellLines : ReadLine(line)
  \/ Parse \/ ParseNoArgs
  \/ DispatchNull \/ DoExit \/ DoStatus \/ DoCd \/ DoExternal
  \/ Fork \/ ForkFail
  \/ \E p \in Pids : ChildSetup(p)
  \/ \E p \in Pids : ChildEnds(p)
  \/ ExecParentFg \/ ExecParentBg
  \/ Cleanup

Spec == Init /\ [][Next]_vars

(* ------------------ the parser on a bounded set of lines --------------- *)

ParseWords == {W_a, W_f, W_lt, W_gt, W_amp, W_exp}

\* lines of up to MaxWords words separated by single spaces, and lines of up to
\* MaxSpaced words with leading, trailing and repeated spaces
ParseLines ==
  {l \in {JoinSp(ws) : ws \in UNION {[1..n -> ParseWords] : n \in 1..MaxWords}}
         \cup {JoinSp(ws) : ws \in UNION {[1..n -> ParseWords \cup {<<>>}] : n \in 1..MaxSpaced}} :
     Accepted(l)}

\* the shell about to call parseCommand (line 400) in its first prompt cycle,
\* with either value of disallow_background
InitParse ==
  /\ pc = "parse"
  /\ userInput \in ParseLines
  /\ disallow_background \in BOOLEAN
  /\ background = FALSE
  /\ background_inform = FALSE
  /\ pidString = <<>>
  /\ args = <<NULL>>
  /\ redir = <<NULL, NULL>>
  /\ argCount = 0
  /\ lastStat = UNSET
  /\ spawnpid = UNSET
  /\ backgroundPIDs = scrubPIDArray
  /\ ri = BGPID_ARR_SIZE
  /\ sigint = prepSigHandler
  /\ cwd = <<"/">>
  /\ exitCode = -1
  /\ children = <<>>
  /\ lastOut = NoOut
  /\ hist = [InitHist EXCEPT !.cycle = <<"inform", "reconcile", "prompt">>]

NextParse == Parse \/ ParseNoArgs

SpecParse == InitParse /\ [][NextParse]_vars

(* ------------- the mode: suspend signals and background requests ------- *)

\* the line typed at every prompt: a command with a background request
ModeLines == {JoinSp(<<W_a, W_amp>>)}

\* memory of main() before its first statement
InitMode ==
  /\ pc = "start"
  /\ background = FALSE
  /\ disallow_background = FALSE
  /\ background_inform = FALSE
  /\ pidString = <<>>
  /\ userInput = <<>>
  /\ args = <<NULL>>
  /\ redir = <<NULL, NULL>>
  /\ argCount = 0
  /\ lastStat = UNSET
  /\ spawnpid = UNSET
  /\ backgroundPIDs = scrubPIDArray
  /\ ri = 0
  /\ sigint = "DFL"
  /\ cwd = HOME
  /\ exitCode = -1
  /\ children = <<>>
  /\ lastOut = NoOut
  /\ hist = [InitHist EXCEPT !.watch = TRUE]

NextMode ==
  \/ Startup
  \/ catchSIGTSTP
  \/ BI61a \/ BI61b \/ BI64a \/ BI64b \/ BI68
  \/ ResolveStep
  \/ Prompt
  \/ ReadFail
  \/ \E line \in ModeLines : ReadLine(line)
  \/ Parse
  \/ DoExternal
  \/ Fork \/ ForkFail
  \/ \E p \in Pids : ChildSetup(p)
  \/ \E p \in Pids : ChildEnds(p)
  \/ ExecParentFg \/ ExecParentBg
  \/ Cleanup

SpecMode == InitMode /\ [][NextMode]_vars

(* ------------- one command line from parseCommand to cleanup ---------- *)

LineWords == ParseWords \cup {W_pid, W_cd, W_tab, <<>>}

\* lines of up to MaxLine words, with single, leading, trailing and repeated spaces
CmdLines ==
  {l \in {JoinSp(ws) : ws \in UNION {[1..n -> LineWords] : n \in 1..MaxLine}} :
     Accepted(l)}

\* the shell about to call parseCommand (line 400), with either value of
\* disallow_background, with the job table empty or holding one running job
InitLine ==
  /\ pc = "parse"
  /\ userInput \in CmdLines
  /\ disallow_background \in BOOLEAN
  /\ background = FALSE
  /\ background_inform = FALSE
  /\ pidString = <<>>
  /\ args = <<NULL>>
  /\ redir = <<NULL, NULL>>
  /\ argCount = 0
  /\ lastStat = UNSET
  /\ spawnpid = UNSET
  /\ ri = BGPID_ARR_SIZE
  /\ sigint = prepSigHandler
  /\ cwd = <<"/">>
  /\ exitCode = -1
  /\ \/ /\ children = <<>>
        /\ backgroundPIDs = scrubPIDArray
     \/ /\ children = <<execChild([NewChild EXCEPT !.bg = TRUE], TRUE, TRUE, TRUE)>>
        /\ backgroundPIDs = placePID(scrubPIDArray, 1).pids
  /\ lastOut = NoOut
  /\ hist = [InitHist EXCEPT !.cycle = <<"inform", "reconcile", "prompt">>]

NextLine ==
  \/ Parse \/ ParseNoArgs
  \/ DispatchNull \/ DoCd \/ DoExternal
  \/ Cleanup

SpecLine == InitLine /\ [][NextLine]_vars

(* ------------------- the job table through its operations -------------- *)

RECURSIVE ResolveFrom(_, _, _)
ResolveFrom(pids, kids, i) ==
  IF i >= BGPID_ARR_SIZE THEN [pids |-> pids, kids |-> kids]
  ELSE LET r == ResolveSlot(pids, kids, i) IN ResolveFrom(r.pids, r.kids, i + 1)

\* resolveBGPID: the whole scan, when no child ends while it runs
resolveBGPID(pids, kids) == ResolveFrom(pids, kids, 0)

\* the shell at the top of its first prompt cycle, after prepSigHandler and
\* scrubPIDArray
InitJobs ==
  /\ pc = "bi61a"
  /\ background = FALSE
  /\ disallow_background = FALSE
  /\ background_inform = FALSE
  /\ pidString = <<>>
  /\ userInput = <<>>
  /\ args = <<NULL>>
  /\ redir = <<NULL, NULL>>
  /\ argCount = 0
  /\ lastStat = UNSET
  /\ spawnpid = UNSET
  /\ backgroundPIDs = scrubPIDArray
  /\ ri = 0
  /\ sigint = prepSigHandler
  /\ cwd = <<"/">>
  /\ exitCode = -1
  /\ children = <<>>
  /\ lastOut = NoOut
  /\ hist = InitHist

JobsRest == <<background, disallow_background, background_inform, pidString, userInput,
              args, redir, argCount, lastStat, spawnpid, ri, sigint, cwd>>

\* a background command from fork to the end of execParent: the child runs its
\* program, the parent calls placePID
JobLaunch ==
  /\ pc = "bi61a"
  /\ Len(children) < MaxJobs
  /\ LET pid == Len(children) + 1
         r   == placePID(backgroundPIDs, pid)
     IN /\ children' = Append(children,
                         execChild([NewChild EXCEPT !.bg = TRUE], TRUE, TRUE, TRUE))
        /\ backgroundPIDs' = r.pids
        /\ hist' = [hist EXCEPT !.lastPlace = [pid |-> pid, before |-> backgroundPIDs]]
        /\ IF r.placed
           THEN /\ lastOut' = Out("background pid is", pid, 0)
                /\ UNCHANGED <<pc, exitCode>>
           ELSE /\ lastOut' = Out("Couldn't track background process.", 0, 0)
                /\ pc' = "done"
                /\ exitCode' = 1
  /\ UNCHANGED JobsRest

\* a running job ends
JobEnds(p) ==
  /\ Cardinality({q \in Pids : children[q].st # "running"}) < MaxDone
  /\ ChildEnds(p)

\* resolveBGPID as getCommand calls it
JobReconcile ==
  /\ pc = "bi61a"
  /\ LET r == resolveBGPID(backgroundPIDs, children)
     IN /\ r.pids # backgroundPIDs
        /\ backgroundPIDs' = r.pids
        /\ children' = r.kids
  /\ lastOut' = NoOut
  /\ hist' = [hist EXCEPT !.lastPlace = InitHist.lastPlace]
  /\ UNCHANGED <<JobsRest, pc, exitCode>>

\* the exit built-in: exitShell and the return from main
JobExit ==
  /\ pc = "bi61a"
  /\ LET r == exitShell(backgroundPIDs, children)
     IN /\ backgroundPIDs' = r.pids
        /\ children' = r.kids
  /\ hist' = [hist EXCEPT !.held = {backgroundPIDs[i] : i \in Slots} \ {0},
                          !.lastPlace = InitHist.lastPlace]
  /\ pc' = "done"
  /\ exitCode' = 0
  /\ lastOut' = NoOut
  /\ UNCHANGED JobsRest

NextJobs ==
  \/ JobLaunch
  \/ \E p \in Pids : JobEnds(p)
  \/ JobReconcile
  \/ JobExit

SpecJobs == InitJobs /\ [][NextJobs]_vars

(* ------------------------------ properties ----------------------------- *)

IsRedir(t) == t \in {W_lt, W_gt}

RECURSIVE Plain(_)
\* the tokens left when, from left to right, every redirection token is taken
\* out together with the token after it
Plain(T) ==
  IF T = <<>> THEN <<>>
  ELSE IF IsRedir(T[1]) THEN Plain(SubSeq(T, 3, Len(T)))
  ELSE <<T[1]>> \o Plain(Tail(T))

\* the value of the argument made from token w
Shown(w) == IF strstr(w) # 0 THEN pidString ELSE w

ShownSeq(W) == [i \in 1..Len(W) |-> Shown(W[i])]

Front(W) == SubSeq(W, 1, Len(W) - 1)

EndsInAmp(W) == W # <<>> /\ W[Len(W)] = W_amp

\* C1: when the last argument of the line, redirections taken out, is "&",
\* parseCommand leaves the arguments before it, and the command is marked
\* background exactly when disallow_background was false as parseCommand read it.
C1_AmpStripped ==
  (pc = "dispatch" /\ EndsInAmp(Plain(strtok(userInput))))
    => /\ ArgList(args, pidString) = ShownSeq(Front(Plain(strtok(userInput))))
       /\ background = ~hist.disAtParse

\* "a f &" parsed while background execution is disallowed
C1_Witness ==
  /\ pc = "dispatch"
  /\ userInput = JoinSp(<<W_a, W_f, W_amp>>)
  /\ hist.disAtParse
  /\ ~background
  /\ ArgList(args, pidString) = <<W_a, W_f>>

\* C2: after exit every job the table held has been sent SIGKILL, every slot is
\* empty, the shell has ended with exit code 0 and does nothing more.
C2_ExitKillsAll ==
  exitCode = 0
    => /\ pc = "done"
       /\ \A i \in Slots : backgroundPIDs[i] = 0
       /\ \A p \in hist.held : children[p].killed /\ children[p].st \in {"zombie", "reaped"}
       /\ lastOut = NoOut

\* exit with two jobs in the table
C2_Witness ==
  /\ exitCode = 0
  /\ Cardinality(hist.held) = 2
  /\ \A p \in hist.held : children[p].cause = Signaled(SIGKILL)

\* C3: placePID puts the pid into the lowest empty slot and changes no other
\* slot whenever a slot is empty; on a full table it changes nothing and the
\* shell ends with exit code 1.
C3_PlacePID ==
  hist.lastPlace.pid # 0
    => LET b    == hist.lastPlace.before
           free == {i \in Slots : b[i] = 0}
       IN IF free # {}
          THEN /\ exitCode = -1
               /\ \E i \in free :
                    /\ \A j \in free : i <= j
                    /\ backgroundPIDs[i] = hist.lastPlace.pid
                    /\ \A j \in Slots \ {i} : backgroundPIDs[j] = b[j]
          ELSE /\ backgroundPIDs = b
               /\ pc = "done"
               /\ exitCode = 1

\* one job more than the table holds
C3_Witness ==
  /\ hist.lastPlace.pid # 0
  /\ \A i \in Slots : hist.lastPlace.before[i] # 0
  /\ exitCode = 1

\* C4: when the prompt is displayed the cycle has run the notification step and
\* then the scan, and every job that had ended when the scan started has been
\* reported and its slot freed.
C4_ReportedBeforePrompt ==
  /\ pc \in {"prompt", "read"} =>
       \A p \in hist.doneAtScan :
         /\ children[p].st = "reaped"
         /\ children[p].reported = 1
         /\ \A i \in Slots : backgroundPIDs[i] # p
  /\ pc = "read" => hist.cycle = <<"inform", "reconcile", "prompt">>

\* a prompt displayed in a cycle whose scan found an ended job
C4_Witness == pc = "read" /\ hist.doneAtScan # {}

\* C5: there are never more mode messages than runs of the handler, and a
\* notification step displays a message only if the handler ran since the
\* end of the previous step.
C5_OncePerToggle ==
  /\ hist.owed >= 0
  /\ (pc = "bi68" /\ lastOut.m \in ModeMsgs) => hist.sigSince

\* a mode message displayed for the second of two toggles
C5_Witness ==
  /\ pc = "bi68"
  /\ lastOut.m = "Exiting foreground-only mode"
  /\ hist.owed = 1

\* C6: status prints how the most recently waited foreground child ended, and
\* lastStat is the wait status of that child in every state (nothing but a
\* foreground wait changes it).
C6_Status ==
  /\ lastStat = IF hist.lastFg = NoCause THEN UNSET ELSE WaitStatus(hist.lastFg)
  /\ (pc = "cleanup" /\ args[1] # NULL /\ Name = W_status /\ hist.lastFg # NoCause)
       => lastOut = Out(IF hist.lastFg.kind = "exit" THEN "exit value"
                        ELSE "terminated by signal", hist.lastFg.n, 0)

\* status after a foreground child that failed to start (exit value 1), with a
\* job in the table
C6_Witness ==
  /\ pc = "cleanup"
  /\ args[1] # NULL /\ Name = W_status
  /\ hist.lastFg = Exited(1)
  /\ lastOut = Out("exit value", 1, 0)
  /\ \E i \in Slots : backgroundPIDs[i] # 0

\* C7: after startup the shell ignores SIGINT; a foreground child runs its
\* program with SIGINT at default, a background child with SIGINT ignored.
C7_Sigint ==
  /\ pc # "start" => sigint = "IGN"
  /\ \A p \in Pids :
       children[p].st = "running" =>
         children[p].sigint = IF children[p].bg THEN "IGN" ELSE "DFL"

\* a background and a foreground program running at once
C7_Witness ==
  \E p, q \in Pids :
    /\ children[p].st = "running" /\ children[p].bg /\ children[p].sigint = "IGN"
    /\ children[q].st = "running" /\ ~children[q].bg /\ children[q].sigint = "DFL"

\* C8: a child is setting up, runs its program, or has ended; a child whose
\* open or execvp failed has ended with exit status 1 and never ran the
\* program; the shell is not ended by it.
C8_ChildFailure ==
  \A p \in Pids :
    /\ children[p].st \in {"forked", "running", "zombie", "reaped"}
    /\ children[p].failed =>
         /\ children[p].st = "zombie"
         /\ ~children[p].execd
         /\ children[p].cause = Exited(1)
    /\ (pc = "parent" /\ spawnpid = p /\ children[p].failed) => exitCode = -1

\* the shell at the top of the next cycle after its foreground child failed
C8_Witness == pc = "bi61a" /\ hist.lastFg = Exited(1) /\ exitCode = -1

\* every redirection token has a target, and the target is no redirection token
WellFormed(T) ==
  \A i \in 1..Len(T) : IsRedir(T[i]) => i < Len(T) /\ ~IsRedir(T[i + 1])

\* the token after the last occurrence of op, the null pointer without one
Target(T, op) ==
  LET occ == {i \in 1..Len(T) : T[i] = op}
  IN IF occ = {} THEN NULL ELSE Tok(T[(CHOOSE i \in occ : \A j \in occ : j <= i) + 1])

RECURSIVE OthersFrom(_, _)
OthersFrom(T, i) ==
  IF i > Len(T) THEN <<>>
  ELSE IF IsRedir(T[i]) \/ (i > 1 /\ IsRedir(T[i - 1])) THEN OthersFrom(T, i + 1)
  ELSE <<T[i]>> \o OthersFrom(T, i + 1)

\* the tokens that are neither a redirection token nor the token after one
Others(T) == OthersFrom(T, 1)

Dangling(line) ==
  LET T == strtok(line) IN T # <<>> /\ IsRedir(T[Len(T)])

\* C10: a line whose "<" or ">" has no token after it is rejected: it is not
\* dispatched and no process is made for it.
C10_DanglingRejected ==
  Dangling(userInput) => pc \notin {"fork", "parent", "cleanup"}

\* a line that begins with "#", or holds nothing but spaces
Skippable(line) ==
  \/ (Len(line) > 0 /\ line[1] = "#")
  \/ \A i \in 1..Len(line) : line[i] = " "

\* C11: a line that begins with "#" or is empty after trimming is never handed
\* to parseCommand and never dispatched.
C11_SkippedLines ==
  pc \in {"parse", "dispatch"} => ~Skippable(userInput)

\* the words of the command: the tokens scanned as arguments, less a final "&"
CmdWords(line) ==
  LET W == Plain(strtok(line)) IN IF EndsInAmp(W) THEN Front(W) ELSE W

\* C12: for every line handed to parseCommand that is not blank, the command
\* dispatched has at least one argument and args[0] is present.
C12_CommandName ==
  (pc = "dispatch" /\ ~Skippable(userInput)) => (argCount >= 1 /\ args[1] # NULL)

IsCd(line) == CmdWords(line) # <<>> /\ CmdWords(line)[1] = W_cd

\* the directory cd is to change to: the second word of the command, HOME without one
CdTarget(line) ==
  IF Len(CmdWords(line)) >= 2 THEN Shown(CmdWords(line)[2]) ELSE HOME

\* C13: the step that dispatches a cd command ends in the directory named by
\* the second word of the command, or HOME when "cd" is its only word (or
\* where it was, when chdir fails); it goes on to cleanup, makes no process
\* and leaves the job table as it was.
C13_Cd ==
  [][(pc = "dispatch" /\ IsCd(userInput))
       => /\ pc' = "cleanup"
          /\ cwd' \in {CdTarget(userInput), cwd}
          /\ children' = children
          /\ backgroundPIDs' = backgroundPIDs]_vars

\* the decimal text of the shell's process id
PidText == <<"4", "0", "7">>

\* the part of a token before its first "$$"
Prefix(w) == SubSeq(w, 1, strstr(w) - 1)

HasMarker(w) == strstr(w) # 0

\* C14: every argument made from a token that contains "$$" is the text of
\* that token before its first "$$" followed by the decimal process id.
C14_Expansion ==
  pc = "dispatch" =>
    LET W == CmdWords(userInput)
        A == ArgList(args, pidString)
    IN \A i \in 1..Len(W) :
         HasMarker(W[i]) => (i <= Len(A) /\ A[i] = Prefix(W[i]) \o PidText)

\* the last word of W that contains "$$"
LastMarked(W) ==
  W[CHOOSE i \in 1..Len(W) : HasMarker(W[i]) /\ \A j \in (i + 1)..Len(W) : ~HasMarker(W[j])]

\* C14 as amended: every argument made from a token that contains "$$" has the
\* value made from the last such token of the command: the text of that token
\* before its first "$$" followed by the decimal process id.
C14_LastExpansion ==
  pc = "dispatch" =>
    LET W == CmdWords(userInput)
        A == ArgList(args, pidString)
    IN \A i \in 1..Len(W) :
         HasMarker(W[i]) => (i <= Len(A) /\ A[i] = Prefix(LastMarked(W)) \o PidText)

\* "h$$t $$": both arguments have the value made from the second token
C14_Witness ==
  /\ pc = "dispatch"
  /\ userInput = JoinSp(<<W_exp, W_pid>>)
  /\ ArgList(args, pidString) = <<PidText, PidText>>

RECURSIVE FieldsFrom(_, _, _)
FieldsFrom(line, seps, S) ==
  IF S = {} THEN <<>>
  ELSE LET i == CHOOSE a \in S : \A b \in S : a <= b
           j == CHOOSE e \in i..Len(line) :
                  /\ \A k \in i..e : line[k] \notin seps
                  /\ (e = Len(line) \/ line[e + 1] \in seps)
       IN <<SubSeq(line, i, j)>> \o FieldsFrom(line, seps, S \ {i})

\* the maximal runs of characters of line that are not in seps, in order
Fields(line, seps) ==
  FieldsFrom(line, seps,
    {i \in 1..Len(line) : line[i] \notin seps /\ (i = 1 \/ line[i - 1] \in seps)})

Whitespace == {" ", "\t"}

\* no "<", no ">" and no final "&" among the fields
NoRedirNoAmp(F) == (\A i \in 1..Len(F) : ~IsRedir(F[i])) /\ ~EndsInAmp(F)

\* C15: for a line with no "<", no ">" and no trailing "&", the argument list
\* is the whitespace-split token list of the line.
C15_TokenList ==
  (pc = "dispatch" /\ NoRedirNoAmp(Fields(userInput, Whitespace)))
    => ArgList(args, pidString) = Fields(userInput, Whitespace)

\* C15 as amended: for a line with no "<", no ">", no trailing "&" and no token
\* that contains "$$", the argument list is the list of the maximal runs of
\* characters other than the space, in order.
C15_SpaceSplit ==
  (pc = "dispatch" /\ NoRedirNoAmp(Fields(userInput, {" "}))
     /\ \A i \in 1..Len(Fields(userInput, {" "})) : ~HasMarker(Fields(userInput, {" "})[i]))
    => ArgList(args, pidString) = Fields(userInput, {" "})

\* "a  a<tab>f": two spaces between the words, a tab inside the second word
C15_Witness ==
  /\ pc = "dispatch"
  /\ userInput = JoinSp(<<W_a, <<>>, W_tab>>)
  /\ ArgList(args, pidString) = <<W_a, W_tab>>

\* C16: the step of backgroundInform that clears the pending flag clears a set
\* flag only if a mode message was displayed after the handler last set it.
C16_NeverLost ==
  [][(pc = "bi68" /\ pc' # "bi68") => ~(background_inform /\ hist.fresh)]_vars

\* C17: while the mode message displayed last is "Entering foreground-only
\* mode", no command is registered in the job table.
C17_NoJobAfterEntering ==
  hist.lastPlace.pid # 0 => hist.shown # "enter"

\* C17 as amended: a command is registered in the job table only if
\* disallow_background was 0 when parseCommand tested it for that command.
C17_BackgroundOnlyIfAllowed ==
  hist.lastPlace.pid # 0 => ~hist.disAtParse

\* a job registered after "Entering foreground-only mode" was displayed and a
\* suspend signal followed it: the message for that signal is still pending
C17_Witness ==
  /\ pc = "cleanup"
  /\ hist.lastPlace.pid # 0
  /\ hist.shown = "enter"
  /\ ~hist.disAtParse
  /\ background_inform /\ ~disallow_background
  /\ hist.owed = 1

DoneMsgs == {"background pid is done: exit value",
             "background pid is done: terminated by signal"}

InTable(p) == \E i \in Slots : backgroundPIDs[i] = p

\* C18: no job is reported twice; a reported job had ended, was a background
\* job and has left the table; a job in the table is a background child not
\* yet reported nor waited for; the completion message just printed names a
\* job that had ended; the child a foreground wait has taken is the
\* foreground child itself.
C18_ReportedOnce ==
  /\ \A p \in Pids :
       /\ children[p].reported <= 1
       /\ children[p].reported = 1 =>
            (children[p].st = "reaped" /\ children[p].bg /\ ~InTable(p))
       /\ InTable(p) =>
            (children[p].bg /\ children[p].reported = 0 /\ children[p].st # "reaped")
       /\ (~children[p].bg /\ children[p].st = "reaped") => children[p].reported = 0
  /\ lastOut.m \in DoneMsgs =>
       /\ lastOut.a \in Pids
       /\ children[lastOut.a].st = "reaped"
       /\ children[lastOut.a].reported = 1
  /\ (pc = "cleanup" /\ spawnpid # UNSET /\ hist.lastPlace.pid = 0) =>
       /\ ~children[spawnpid].bg
       /\ children[spawnpid].st = "reaped"

\* a job is reported after a foreground child, started while the job was in
\* the table, has been waited for
C18_Witness ==
  \E p, q \in Pids :
    /\ p < q
    /\ children[p].bg /\ children[p].reported = 1
    /\ ~children[q].bg /\ children[q].st = "reaped"
    /\ lastOut.m \in DoneMsgs /\ lastOut.a = p

\* C19: when the shell has ended by exit, by the capacity error or by the
\* failure of fork, every background child it made and has not waited for
\* has been sent SIGKILL and none is still running.
C19_NoOrphans ==
  pc = "done" =>
    \A p \in Pids :
      (children[p].bg /\ children[p].st # "reaped") =>
        (children[p].killed /\ children[p].st \notin {"forked", "running"})

\* C20: from parse to the end of execParent the flag background is the
\* decision parseCommand took (a final "&" read while background execution
\* was allowed), whatever signals arrive; the child carries the same decision
\* as the parent; a child running its program is set up by that decision
\* (background: SIGINT ignored, the null device where no path is given;
\* foreground: SIGINT at default, no null device); the parent has registered
\* the child without waiting exactly when the child is a background child,
\* and has waited for it exactly when it is a foreground child.
C20_SameDecision ==
  /\ pc \in {"fork", "parent"} =>
       background = (EndsInAmp(Plain(strtok(userInput))) /\ ~hist.disAtParse)
  /\ pc = "parent" => children[spawnpid].bg = background
  /\ \A p \in Pids :
       /\ InTable(p) => children[p].bg
       /\ children[p].st = "running" =>
            IF children[p].bg
            THEN /\ children[p].sigint = "IGN"
                 /\ children[p].stdin \in {"null", "file"}
                 /\ children[p].stdout \in {"null", "file"}
            ELSE /\ children[p].sigint = "DFL"
                 /\ children[p].stdin \in {"inherit", "file"}
                 /\ children[p].stdout \in {"inherit", "file"}
  /\ (pc \in {"parent", "cleanup"} /\ spawnpid # UNSET /\ children[spawnpid].st = "running") =>
       /\ children[spawnpid].stdin =
            IF redir[1] # NULL THEN "file"
            ELSE IF children[spawnpid].bg THEN "null" ELSE "inherit"
       /\ children[spawnpid].stdout =
            IF redir[2] # NULL THEN "file"
            ELSE IF children[spawnpid].bg THEN "null" ELSE "inherit"
  /\ (pc = "cleanup" /\ spawnpid # UNSET) =>
       IF children[spawnpid].bg
       THEN InTable(spawnpid) /\ hist.lastPlace.pid = spawnpid
       ELSE ~InTable(spawnpid) /\ hist.lastPlace.pid = 0 /\ children[spawnpid].st = "reaped"

\* a suspend signal arrived between the parse of "a &" and the parent's
\* bookkeeping: the child runs as a background child and is registered
C20_Witness ==
  /\ pc = "cleanup"
  /\ spawnpid # UNSET
  /\ ~hist.disAtParse /\ disallow_background
  /\ hist.lastPlace.pid = spawnpid
  /\ InTable(spawnpid)
  /\ children[spawnpid].st = "running"
  /\ children[spawnpid].sigint = "IGN"
  /\ children[spawnpid].stdin = "null"

\* the slots that hold pid p
SlotsOf(p) == {i \in Slots : backgroundPIDs[i] = p}

\* an occupied slot holds a background child of this shell that has not been reported
SlotsHoldJobs ==
  \A i \in Slots :
    backgroundPIDs[i] # 0 =>
      /\ backgroundPIDs[i] \in Pids
      /\ children[backgroundPIDs[i]].bg
      /\ children[backgroundPIDs[i]].reported = 0

\* no pid is in two slots
NoPidTwice ==
  \A i, j \in Slots :
    (backgroundPIDs[i] # 0 /\ backgroundPIDs[i] = backgroundPIDs[j]) => i = j

\* the scan at an empty slot prints nothing and changes nothing, and a
\* completion message names a child of the shell
EmptyNotReported ==
  /\ \A i \in Slots :
       backgroundPIDs[i] = 0 =>
         ResolveSlot(backgroundPIDs, children, i)
           = [pids |-> backgroundPIDs, kids |-> children, out |-> NoOut]
  /\ lastOut.m \in DoneMsgs => lastOut.a \in Pids

====
